---- MODULE Spec2Model ----
(***************************************************************************)
(* Model of the load balancer of src/src/balancer.ts: the health scorer    *)
(* (score), the two-candidate selector (chooseBackends) and the dispatch   *)
(* loop (fetchBalancer) with its per-backend status history.               *)
(*                                                                         *)
(* JavaScript runs a dispatch without interruption between two awaits, so  *)
(* one action is the code from one suspension point to the next: Dispatch  *)
(* is the call of fetchBalancer up to its first `await backend.proxy(..)`, *)
(* Complete is the resumption after that await up to the next await or the *)
(* return.                                                                 *)
(*                                                                         *)
(* Health scores are the exact rationals the code computes, scaled by      *)
(* ScoreScale so that they are integers.                                   *)
(***************************************************************************)
EXTENDS Integers, Sequences, FiniteSets, TLC

(* ------------------------------ bounds --------------------------------- *)
MaxPool == 3            \* largest pool of a dispatch scenario
MaxWork == 4            \* transport invocations a behaviour of Spec may need
MaxTicks == 1           \* clock advances per behaviour
MaxSeq == 11            \* sequential dispatches per behaviour of SpecHistory
MaxSelPool == 4         \* largest pool handed to the selector in SpecSelect
MaxHist == 3            \* longest history handed to the scorer in SpecScore

Procs == {1, 2}
Methods == {"GET", "HEAD", "POST"}
TickSteps == {1000, 9000}
Epoch == 20 * 1000      \* Date.now() when the balancer is built

(* ------------------------- program constants --------------------------- *)
HistoryCap == 10
ErrLow == 500
ErrHigh == 600
SyntheticStatus == 502
Hole == -1              \* an unset slot of Array(10): reads as undefined
Throw == -2             \* outcome of a transport call that threw or rejected
ScoreScale == 10 * 27720

is5xx(status) == status >= ErrLow /\ status < ErrHigh

proxyError == [status |-> SyntheticStatus, body |-> "couldn't connect to origin", from |-> 0]
noBackend == [status |-> SyntheticStatus, body |-> "No backend available", from |-> 0]
NoResp == [status |-> 0, body |-> "", from |-> 0]
upstream(status, k) == [status |-> status, body |-> "upstream", from |-> k]
\* What settle yields when the exception leaves the try block (never, in the code).
uncaught == [status |-> 0, body |-> "exception", from |-> 0]

(* --------------------------- transports -------------------------------- *)
\* What a backend's proxy function can do when it is invoked.
Outcomes(kind) ==
  CASE kind = "good"   -> {200, 404}
    [] kind = "bad"    -> {502, Throw}
    [] kind = "flaky"  -> {200, 599}

AllOutcomes == Outcomes("good") \cup Outcomes("bad") \cup Outcomes("flaky")

(* ----------------------------- backends -------------------------------- *)
\* A backend built by balancer() from a host string.
fromHost(h, kind) ==
  [host |-> h, proxy |-> kind, requestCount |-> 0,
   statuses |-> [i \in 1..HistoryCap |-> Hole],
   lastError |-> 0, healthScore |-> 0]

\* A backend record handed to balancer() ready made.
prebuilt(h, kind, rc, sts, le, hs) ==
  [host |-> h, proxy |-> kind, requestCount |-> rc, statuses |-> sts,
   lastError |-> le, healthScore |-> hs]

healthy(h, kind) == prebuilt(h, kind, 0, <<200, 200, 200>>, 0, ScoreScale)
unhealthy(h, kind) ==
  prebuilt(h, kind, 0, <<200, 200, 200, 500, 500, 500>>, 0, ScoreScale \div 2)

(* ------------------------------ scorer --------------------------------- *)
\* JavaScript's a || b on numbers and booleans: 0 and false are falsy.
JsOr(a, b) == IF a = 0 THEN b ELSE a
\* JavaScript's cond && v for a truthy number v: false is modelled as 0.
JsAnd(cond, v) == IF cond THEN v ELSE 0

\* Time buckets that take their upper limit in.
timeWeightInclusive(lastError, errorBasis) ==
  LET timeSinceError == errorBasis - lastError IN
  JsOr(JsAnd(lastError = 0, 0),
    JsOr(JsAnd(timeSinceError <= 1000, 10),
      JsOr(JsAnd(timeSinceError <= 3000, 8),
        JsOr(JsAnd(timeSinceError <= 5000, 3),
          JsOr(JsAnd(timeSinceError <= 10000, 1), 0)))))

\* The time weight in tenths.  `lastError === 0 && 0` is 0, which is
\* falsy, so the chain goes on to the elapsed-time tests.
timeWeight(lastError, errorBasis) ==
  LET timeSinceError == errorBasis - lastError IN
  JsOr(JsAnd(lastError = 0, 0),
    JsOr(JsAnd(timeSinceError < 1000, 10),
      JsOr(JsAnd(timeSinceError < 3000, 8),
        JsOr(JsAnd(timeSinceError < 5000, 3),
          JsOr(JsAnd(timeSinceError < 10000, 1), 0)))))

RECURSIVE countErrors(_, _)
countErrors(statuses, i) ==
  IF i > Len(statuses) THEN 0
  ELSE (IF is5xx(statuses[i]) THEN 1 ELSE 0) + countErrors(statuses, i + 1)

\* A scorer that adds the weighted error fraction instead of taking it off.
scoreSignSlip(backend, errorBasis) ==
  IF Len(backend.statuses) = 0 THEN 0
  ELSE LET requests == Len(backend.statuses)
           errors == countErrors(backend.statuses, 1)
       IN ScoreScale + (timeWeight(backend.lastError, errorBasis) * errors
                          * (ScoreScale \div 10)) \div requests

score(backend, errorBasis) ==
  IF Len(backend.statuses) = 0 THEN 0
  ELSE LET requests == Len(backend.statuses)
           errors == countErrors(backend.statuses, 1)
       IN ScoreScale - (timeWeight(backend.lastError, errorBasis) * errors
                          * (ScoreScale \div 10)) \div requests

\* canRetry that forgets HEAD.
canRetryGetOnly(method, status) ==
  IF status < ErrLow THEN FALSE
  ELSE IF method = "GET" THEN TRUE
  ELSE FALSE

\* canRetry that does not look at the method.
canRetryAnyMethod(method, status) ==
  IF status < ErrLow THEN FALSE ELSE TRUE

canRetry(method, status) ==
  IF status < ErrLow THEN FALSE
  ELSE IF method = "GET" \/ method = "HEAD" THEN TRUE
  ELSE FALSE

(* ----------------------------- selector -------------------------------- *)
\* chooseBackends without the `if (attempted[b.host]) continue`.
RECURSIVE chooseLoopNoSkip(_, _, _, _, _)
chooseLoopNoSkip(bs, att, i, backendA, backendB) ==
  IF i > Len(bs) THEN <<backendA, backendB>>
  ELSE LET b == bs[i] IN
    IF backendA = 0 THEN chooseLoopNoSkip(bs, att, i + 1, i, backendB)
    ELSE IF backendB = 0 THEN chooseLoopNoSkip(bs, att, i + 1, backendA, i)
    ELSE IF \/ b.healthScore > bs[backendA].healthScore
            \/ /\ b.healthScore = bs[backendA].healthScore
               /\ b.requestCount < bs[backendA].requestCount
         THEN chooseLoopNoSkip(bs, att, i + 1, i, backendB)
    ELSE IF \/ b.requestCount <= bs[backendB].requestCount
            \/ /\ b.healthScore = bs[backendB].healthScore
               /\ b.requestCount < bs[backendB].requestCount
         THEN chooseLoopNoSkip(bs, att, i + 1, backendA, i)
    ELSE chooseLoopNoSkip(bs, att, i + 1, backendA, backendB)

\* chooseBackends with the exclusion test moved below the two comparisons.
RECURSIVE chooseLoopLateSkip(_, _, _, _, _)
chooseLoopLateSkip(bs, att, i, backendA, backendB) ==
  IF i > Len(bs) THEN <<backendA, backendB>>
  ELSE LET b == bs[i] IN
    IF backendA # 0 /\ backendB # 0
       /\ (\/ b.healthScore > bs[backendA].healthScore
           \/ /\ b.healthScore = bs[backendA].healthScore
              /\ b.requestCount < bs[backendA].requestCount)
    THEN chooseLoopLateSkip(bs, att, i + 1, i, backendB)
    ELSE IF backendA # 0 /\ backendB # 0
       /\ (\/ b.requestCount <= bs[backendB].requestCount
           \/ /\ b.healthScore = bs[backendB].healthScore
              /\ b.requestCount < bs[backendB].requestCount)
    THEN chooseLoopLateSkip(bs, att, i + 1, backendA, i)
    ELSE IF b.host \in att THEN chooseLoopLateSkip(bs, att, i + 1, backendA, backendB)
    ELSE IF backendA = 0 THEN chooseLoopLateSkip(bs, att, i + 1, i, backendB)
    ELSE IF backendB = 0 THEN chooseLoopLateSkip(bs, att, i + 1, backendA, i)
    ELSE chooseLoopLateSkip(bs, att, i + 1, backendA, backendB)

\* A selector whose first slot lacks its continue: the backend that fills the
\* first slot falls through and fills the second as well.
RECURSIVE chooseLoopNoContinue(_, _, _, _, _)
chooseLoopNoContinue(bs, att, i, backendA, backendB) ==
  IF i > Len(bs) THEN <<backendA, backendB>>
  ELSE LET b == bs[i] IN
    IF b.host \in att THEN chooseLoopNoContinue(bs, att, i + 1, backendA, backendB)
    ELSE IF backendA = 0
         THEN chooseLoopNoContinue(bs, att, i + 1, i,
                                   IF backendB = 0 THEN i ELSE backendB)
    ELSE IF backendB = 0 THEN chooseLoopNoContinue(bs, att, i + 1, backendA, i)
    ELSE IF \/ b.healthScore > bs[backendA].healthScore
            \/ /\ b.healthScore = bs[backendA].healthScore
               /\ b.requestCount < bs[backendA].requestCount
         THEN chooseLoopNoContinue(bs, att, i + 1, i, backendB)
    ELSE IF \/ b.requestCount <= bs[backendB].requestCount
            \/ /\ b.healthScore = bs[backendB].healthScore
               /\ b.requestCount < bs[backendB].requestCount
         THEN chooseLoopNoContinue(bs, att, i + 1, backendA, i)
    ELSE chooseLoopNoContinue(bs, att, i + 1, backendA, backendB)

\* Candidates are indexes into the pool; 0 is null.
RECURSIVE chooseLoop(_, _, _, _, _)
chooseLoop(bs, att, i, backendA, backendB) ==
  IF i > Len(bs) THEN <<backendA, backendB>>
  ELSE LET b == bs[i] IN
    IF b.host \in att THEN chooseLoop(bs, att, i + 1, backendA, backendB)
    ELSE IF backendA = 0 THEN chooseLoop(bs, att, i + 1, i, backendB)
    ELSE IF backendB = 0 THEN chooseLoop(bs, att, i + 1, backendA, i)
    ELSE IF \/ b.healthScore > bs[backendA].healthScore
            \/ /\ b.healthScore = bs[backendA].healthScore
               /\ b.requestCount < bs[backendA].requestCount
         THEN chooseLoop(bs, att, i + 1, i, backendB)
    ELSE IF \/ b.requestCount <= bs[backendB].requestCount
            \/ /\ b.healthScore = bs[backendB].healthScore
               /\ b.requestCount < bs[backendB].requestCount
         THEN chooseLoop(bs, att, i + 1, backendA, i)
    ELSE chooseLoop(bs, att, i + 1, backendA, backendB)

chooseBackends(bs, att) == chooseLoop(bs, att, 1, 0, 0)

(* ------------------------- status history ------------------------------ *)
\* A history that only ever grows.
recordStatusAlwaysPush(backend, status) == Append(backend.statuses, status)

recordStatus(backend, status) ==
  IF Len(backend.statuses) < HistoryCap
  THEN Append(backend.statuses, status)
  ELSE [backend.statuses EXCEPT
          ![(backend.requestCount % Len(backend.statuses)) + 1] = status]

\* The await without its try/catch.
settleNoCatch(outcome, k) ==
  IF outcome = Throw THEN uncaught ELSE upstream(outcome, k)

\* try { resp = await backend.proxy(..) } catch (e) { resp = proxyError }
settle(outcome, k) ==
  IF outcome = Throw THEN proxyError ELSE upstream(outcome, k)

\* Recording that stamps lastError whatever the status.
recordedAlwaysStamps(backend, status, t) ==
  LET b1 == [backend EXCEPT !.statuses = recordStatus(backend, status)]
      b2 == [b1 EXCEPT !.lastError = t]
  IN [b2 EXCEPT !.healthScore = score(b2, t)]

\* The backend after an attempt that ended with status at time t.
recorded(backend, status, t) ==
  LET b1 == [backend EXCEPT !.statuses = recordStatus(backend, status)]
      b2 == IF is5xx(status) THEN [b1 EXCEPT !.lastError = t] ELSE b1
  IN [b2 EXCEPT !.healthScore = score(b2, t)]

(* --------------------------- dispatch loop ----------------------------- *)
\* while (Object.getOwnPropertyNames(attempted).length < backends.length)
loopTest(att, bs) == Cardinality(att) < Len(bs)

\* The backend the loop takes from the two candidates; rnd is
\* Math.floor(Math.random() * 2).
pick(c, rnd) ==
  IF c[2] = 0 THEN c[1]
  ELSE IF rnd = 0 THEN c[1] ELSE c[2]

\* A loop that forgets whom it tried.
markNothing(att, host) == att

\* attempted[backend.host] = backend
mark(att, host) == att \cup {host}

(* ------------------------------- state --------------------------------- *)
VARIABLES
  backends,     \* the pool: a sequence of backend records
  now,          \* Date.now()
  pc,           \* per dispatch: "idle", "invoking", "done", "rejected"
  method,       \* per dispatch: the request method
  attempted,    \* per dispatch: the keys of the attempted object
  cur,          \* per dispatch: the backend whose proxy is awaited, or 0
  resp,         \* per dispatch: the response returned to the caller
  cand,         \* per dispatch: the last result of chooseBackends
  tried,        \* per dispatch: the backends invoked, in order
  log,          \* per backend: every status recorded, in order
  start,        \* the pool as the balancer was built
  budget,       \* transport invocations left to the scenario
  ticks,        \* clock advances left
  active,       \* the dispatchers of this scenario
  ord,          \* per dispatch: backend.requestCount as its own += 1 left it
  result        \* what a direct call of score returned, or NoScore

vars == <<backends, now, pc, method, attempted, cur, resp, cand, tried, log,
          start, budget, ticks, active, ord, result>>

NoScore == -1

\* The backends a dispatch scenario is built from.
Templates == {"hostGood", "hostBad", "healthyFlaky", "loweredGood"}

build(t, h) ==
  CASE t = "hostGood"     -> fromHost(h, "good")
    [] t = "hostBad"      -> fromHost(h, "bad")
    [] t = "healthyFlaky" -> healthy(h, "flaky")
    [] t = "loweredGood"  ->
         [unhealthy(h, "good") EXCEPT !.healthScore = ScoreScale \div 10]

\* Pools of n backends with pairwise distinct hosts.
PoolsOf(n, ts) == { [i \in 1..n |-> build(f[i], i)] : f \in [1..n -> ts] }

Pools == UNION { PoolsOf(n, Templates) : n \in 0..MaxPool }

\* Pools whose backends either always answer below 500 or always fail.
SteadyPools ==
  UNION { PoolsOf(n, {"hostGood", "hostBad", "loweredGood"}) : n \in 0..MaxPool }

\* Pools of two ready-made records that carry the same host.
SharedHostPools ==
  { <<a, b>> : a \in {healthy(1, "bad"), healthy(1, "good")},
               b \in {healthy(1, "bad"), healthy(1, "good")} }

\* A ready-made record whose history is longer than the balancer keeps, and
\* one whose history is one entry short of full.
oversized(h, kind) ==
  prebuilt(h, kind, 0, [i \in 1..(HistoryCap + 1) |-> 200], 0, ScoreScale)
nearlyFull(h, kind) ==
  prebuilt(h, kind, 0, [i \in 1..(HistoryCap - 1) |-> 200], 0, ScoreScale)
\* A ready-made record that has seen nothing yet.
blank(h, kind) == prebuilt(h, kind, 0, <<>>, 0, 0)

\* A ready-made record that failed two seconds before the balancer was built.
erred(h, kind) ==
  prebuilt(h, kind, 0, <<200, ErrLow>>, Epoch - 2000, (ScoreScale \div 10) * 6)

DistinctHosts(bs) ==
  \A i, j \in 1..Len(bs) : i # j => bs[i].host # bs[j].host

InitCommon ==
  /\ start = backends
  /\ now = Epoch
  /\ pc = [p \in Procs |-> "idle"]
  /\ method = [p \in Procs |-> "GET"]
  /\ cur = [p \in Procs |-> 0]
  /\ resp = [p \in Procs |-> NoResp]
  /\ cand = [p \in Procs |-> <<0, 0>>]
  /\ tried = [p \in Procs |-> <<>>]
  /\ log = [i \in 1..Len(backends) |-> <<>>]
  /\ ord = [p \in Procs |-> 0]
  /\ result = NoScore

\* Concurrent dispatches over pools of up to MaxPool backends.
Init ==
  /\ backends \in Pools \cup SharedHostPools
                  \cup {<<oversized(1, "flaky")>>, <<nearlyFull(1, "flaky")>>,
                        <<erred(1, "flaky")>>}
  /\ attempted = [p \in Procs |-> {}]
  /\ budget = MaxWork
  /\ ticks = MaxTicks
  /\ active = Procs
  /\ InitCommon

\* One dispatch after the other on a pool of a single backend.
InitHistory ==
  /\ backends \in {<<fromHost(1, "flaky")>>, <<healthy(1, "flaky")>>,
                   <<blank(1, "flaky")>>}
  /\ attempted = [p \in Procs |-> {}]
  /\ budget = MaxSeq
  /\ ticks = 0
  /\ active = {1}
  /\ InitCommon

\* The selector on its own: any pool, any exclusion set.
SelScores == {ScoreScale \div 10, ScoreScale \div 2, ScoreScale}
SelCounts == {0, 1}
selBackend(h, hs, rc) == prebuilt(h, "good", rc, <<200, 200, 200>>, 0, hs)
SelPoolsOf(n) ==
  { [i \in 1..n |-> selBackend(i, f[i][1], f[i][2])] :
      f \in [1..n -> SelScores \X SelCounts] }
SelPools == UNION { SelPoolsOf(n) : n \in 0..MaxSelPool }

InitSelect ==
  /\ backends \in SelPools
  /\ \E ex \in SUBSET (1..Len(backends)) :
       attempted = [p \in Procs |-> IF p = 1 THEN ex ELSE {}]
  /\ budget = 0
  /\ ticks = 0
  /\ active = {1}
  /\ InitCommon

(* ------------------------------ actions -------------------------------- *)
\* return r
Return(p, bs, r, c, trd) ==
  /\ backends' = bs
  /\ pc' = [pc EXCEPT ![p] = "done"]
  /\ resp' = [resp EXCEPT ![p] = r]
  /\ cur' = [cur EXCEPT ![p] = 0]
  /\ cand' = [cand EXCEPT ![p] = c]
  /\ tried' = [tried EXCEPT ![p] = trd]
  /\ ord' = [ord EXCEPT ![p] = 0]

\* One pass from the loop test to the await: the loop test, the selection,
\* the pick, the count, the mark and the call of the proxy; or the return
\* that ends the loop.
\* A count that adds two.
countTwice(bs, k) == [bs EXCEPT ![k].requestCount = @ + 2]

\* backend.requestCount += 1
count(bs, k) == [bs EXCEPT ![k].requestCount = @ + 1]

\* A loop that counts the request on the first candidate, whichever of the
\* two it goes on to call.
LoopHeadCountsFirst(p, bs, att, trd, rnd) ==
  IF loopTest(att, bs)
  THEN LET c == chooseBackends(bs, att)
           backendA == c[1]
       IN IF backendA = 0
          THEN /\ Return(p, bs, noBackend, c, trd)
               /\ attempted' = [attempted EXCEPT ![p] = att]
          ELSE LET k == pick(c, rnd)
               IN /\ backends' = count(bs, backendA)
                  /\ ord' = [ord EXCEPT ![p] = count(bs, backendA)[k].requestCount]
                  /\ attempted' = [attempted EXCEPT ![p] = mark(att, bs[k].host)]
                  /\ pc' = [pc EXCEPT ![p] = "invoking"]
                  /\ cur' = [cur EXCEPT ![p] = k]
                  /\ resp' = [resp EXCEPT ![p] = NoResp]
                  /\ cand' = [cand EXCEPT ![p] = c]
                  /\ tried' = [tried EXCEPT ![p] = Append(trd, k)]
  ELSE /\ Return(p, bs, proxyError, cand[p], trd)
       /\ attempted' = [attempted EXCEPT ![p] = att]

LoopHead(p, bs, att, trd, rnd) ==
  IF loopTest(att, bs)
  THEN LET c == chooseBackends(bs, att)
           backendA == c[1]
       IN IF backendA = 0
          THEN /\ Return(p, bs, noBackend, c, trd)
               /\ attempted' = [attempted EXCEPT ![p] = att]
          ELSE LET k == pick(c, rnd)
               IN /\ backends' = count(bs, k)
                  /\ ord' = [ord EXCEPT ![p] = count(bs, k)[k].requestCount]
                  /\ attempted' = [attempted EXCEPT ![p] = mark(att, bs[k].host)]
                  /\ pc' = [pc EXCEPT ![p] = "invoking"]
                  /\ cur' = [cur EXCEPT ![p] = k]
                  /\ resp' = [resp EXCEPT ![p] = NoResp]
                  /\ cand' = [cand EXCEPT ![p] = c]
                  /\ tried' = [tried EXCEPT ![p] = Append(trd, k)]
  ELSE /\ Return(p, bs, proxyError, cand[p], trd)
       /\ attempted' = [attempted EXCEPT ![p] = att]

\* The invocations a dispatch may need: one per backend.  A dispatch starts
\* only while the scenario has that many left, so that it can run to its end.
Cost == IF Len(backends) = 0 THEN 1 ELSE Len(backends)

\* fetchBalancer(req, init) up to the first await.  Dispatchers are
\* interchangeable: a new call takes the lowest free one.
Dispatch(p, m, rnd) ==
  /\ p \in active
  /\ pc[p] # "invoking"
  /\ \A q \in active : q < p => pc[q] = "invoking"
  /\ budget >= Cost
  /\ budget' = budget - Cost
  /\ method' = [method EXCEPT ![p] = m]
  /\ LoopHead(p, backends, {}, <<>>, rnd)
  /\ UNCHANGED <<now, log, start, ticks, active, result>>

\* The awaited proxy call of dispatch p settles with outcome: the status is
\* recorded, the score refreshed, and the loop returns or goes round.  An
\* exception that left the try block would reject the call then and there.
Complete(p, outcome, rnd) ==
  /\ pc[p] = "invoking"
  /\ outcome \in Outcomes(backends[cur[p]].proxy)
  /\ LET k == cur[p]
         r == settle(outcome, k)
         bs == [backends EXCEPT ![k] = recorded(backends[k], r.status, now)]
     IN IF r = uncaught
        THEN /\ pc' = [pc EXCEPT ![p] = "rejected"]
             /\ cur' = [cur EXCEPT ![p] = 0]
             /\ UNCHANGED <<backends, attempted, resp, cand, tried, log, ord>>
        ELSE /\ log' = [log EXCEPT ![k] = Append(@, r.status)]
             /\ IF is5xx(r.status) /\ canRetry(method[p], r.status)
                THEN LoopHead(p, bs, attempted[p], tried[p], rnd)
                ELSE /\ Return(p, bs, r, cand[p], tried[p])
                     /\ UNCHANGED attempted
  /\ UNCHANGED <<now, method, start, budget, ticks, active, result>>

\* Time passes.
Tick(d) ==
  /\ ticks > 0
  /\ ticks' = ticks - 1
  /\ now' = now + d
  /\ UNCHANGED <<backends, pc, method, attempted, cur, resp, cand, tried, log,
                 start, budget, active, ord, result>>

Next ==
  \/ \E p \in Procs, m \in Methods, rnd \in {0, 1} : Dispatch(p, m, rnd)
  \/ \E p \in Procs, o \in AllOutcomes, rnd \in {0, 1} : Complete(p, o, rnd)
  \/ \E d \in TickSteps : Tick(d)

Spec == Init /\ [][Next]_vars

NextHistory ==
  \/ \E p \in Procs, m \in Methods, rnd \in {0, 1} : Dispatch(p, m, rnd)
  \/ \E p \in Procs, o \in AllOutcomes, rnd \in {0, 1} : Complete(p, o, rnd)

SpecHistory == InitHistory /\ [][NextHistory]_vars

\* _internal.chooseBackends(backends, attempted) called on its own.
Choose ==
  /\ pc[1] = "idle"
  /\ cand' = [cand EXCEPT ![1] = chooseBackends(backends, attempted[1])]
  /\ pc' = [pc EXCEPT ![1] = "selected"]
  /\ UNCHANGED <<backends, now, method, attempted, cur, resp, tried, log,
                 start, budget, ticks, active, ord, result>>

NextSelect == Choose

SpecSelect == InitSelect /\ [][NextSelect]_vars

\* Concurrent dispatches with the clock left alone; every transport
\* invocation completes or fails.
InitLive ==
  /\ backends \in SteadyPools \cup SharedHostPools
  /\ attempted = [p \in Procs |-> {}]
  /\ budget = MaxWork
  /\ ticks = 0
  /\ active = Procs
  /\ InitCommon

FairSpec ==
  /\ InitLive
  /\ [][NextHistory]_vars
  /\ \A p \in Procs :
       WF_vars(\E o \in AllOutcomes, rnd \in {0, 1} : Complete(p, o, rnd))

\* _internal.score(backend, errorBasis) called on its own, as the tests call
\* it: any short history, a backend that never failed or one that failed at
\* Epoch, and an errorBasis on either side of every limit of the time buckets.
ScoreStatuses == {200, ErrLow, ErrHigh - 1}
Elapsed == {-1, 0, 999, 1000, 2999, 3000, 4999, 5000, 9999, 10000, Epoch}
ScoreHistories ==
  UNION { [1..m -> ScoreStatuses] : m \in 0..MaxHist }
    \cup {unhealthy(1, "good").statuses}

InitScore ==
  /\ \E sts \in ScoreHistories, le \in {0, Epoch}, e \in Elapsed :
       /\ backends = <<prebuilt(1, "good", 0, sts, le, 0)>>
       /\ now = le + e
  /\ start = backends
  /\ pc = [p \in Procs |-> "idle"]
  /\ method = [p \in Procs |-> "GET"]
  /\ attempted = [p \in Procs |-> {}]
  /\ cur = [p \in Procs |-> 0]
  /\ resp = [p \in Procs |-> NoResp]
  /\ cand = [p \in Procs |-> <<0, 0>>]
  /\ tried = [p \in Procs |-> <<>>]
  /\ log = [i \in 1..Len(backends) |-> <<>>]
  /\ ord = [p \in Procs |-> 0]
  /\ result = NoScore
  /\ budget = 0
  /\ ticks = 0
  /\ active = {1}

ScoreCall ==
  /\ pc[1] = "idle"
  /\ result' = score(backends[1], now)
  /\ pc' = [pc EXCEPT ![1] = "scored"]
  /\ UNCHANGED <<backends, now, method, attempted, cur, resp, cand, tried, log,
                 start, budget, ticks, active, ord>>

NextScore == ScoreCall

SpecScore == InitScore /\ [][NextScore]_vars

(* ============================== claims ================================== *)
GH == {"GET", "HEAD"}
NoDup(s) == \A i, j \in 1..Len(s) : i # j => s[i] # s[j]
Last(s) == s[Len(s)]
Pool == 1..Len(backends)
Unattempted(p) == { i \in Pool : backends[i].host \notin attempted[p] }
AllBad == \A i \in Pool : backends[i].proxy = "bad"
\* At least one backend always answers below 500, all others always fail.
GoodPool ==
  /\ DistinctHosts(backends)
  /\ \E i \in Pool : backends[i].proxy = "good"
  /\ \A i \in Pool : backends[i].proxy \in {"good", "bad"}
\* Dispatch p resumes from its await in this step.
Resumes(p) ==
  pc[p] = "invoking" /\ (pc'[p] # "invoking" \/ tried'[p] # tried[p])

\* C1: within one dispatch call over a pool with pairwise distinct hosts no
\* backend's transport is invoked twice, whatever the responses and the
\* random picks are.
C1_AtMostOncePerCall ==
  DistinctHosts(backends) => \A p \in Procs : NoDup(tried[p])

\* A call that failed over through a whole pool of three.
C1_Witness ==
  \E p \in Procs :
    /\ pc[p] = "done" /\ DistinctHosts(backends)
    /\ Len(backends) = 3 /\ Len(tried[p]) = 3

\* C2: a GET or HEAD dispatch over a pool with distinct hosts in which at
\* least one backend answers below 500 and all others answer 5xx or throw
\* ends, and ends with the response of a backend that answers below 500,
\* whatever the scores, the request counts and the random picks are.
C2_FailoverReachesGood ==
  /\ [](\A p \in Procs :
          (pc[p] = "done" /\ method[p] \in GH /\ GoodPool) =>
             /\ ~is5xx(resp[p].status)
             /\ resp[p].from \in Pool
             /\ backends[resp[p].from].proxy = "good"
             /\ resp[p].from = Last(tried[p]))
  /\ \A p \in Procs :
       (pc[p] = "invoking" /\ method[p] \in GH /\ GoodPool)
         ~> (pc[p] = "done" /\ ~is5xx(resp[p].status))

\* Two failing backends were tried before the only good one, whose score
\* started lowest, answered.
C2_Witness ==
  \E p \in Procs :
    /\ pc[p] = "done" /\ method[p] \in GH /\ GoodPool
    /\ Len(tried[p]) = 3 /\ ~is5xx(resp[p].status)
    /\ \A i \in Pool : i # Last(tried[p]) => backends[i].proxy = "bad"
    /\ start[Last(tried[p])].healthScore > 0

\* C3: an attempt is followed by an attempt on another backend exactly when
\* its status is 5xx and the method is GET or HEAD (and a backend is left to
\* try); otherwise the call returns that attempt's response at once.  A call
\* with another method makes exactly one attempt, even when a healthier
\* backend was left untried.
C3_Step(p) ==
  Resumes(p) =>
    LET k == cur[p]
        s == Last(log'[k])
    IN /\ Len(log'[k]) = Len(log[k]) + 1
       /\ IF is5xx(s) /\ method[p] \in GH
          THEN IF Unattempted(p) # {}
               THEN /\ pc'[p] = "invoking"
                    /\ \E j \in Unattempted(p) :
                         j # k /\ tried'[p] = Append(tried[p], j)
               ELSE /\ pc'[p] = "done"
                    /\ tried'[p] = tried[p]
                    /\ resp'[p].from = 0
          ELSE /\ pc'[p] = "done"
               /\ tried'[p] = tried[p]
               /\ resp'[p].status = s
               /\ \/ resp'[p] = upstream(s, k)
                  \/ s = SyntheticStatus /\ resp'[p] = proxyError

C3_RetryOnlyIdempotent5xx ==
  /\ [][\A p \in Procs : C3_Step(p)]_vars
  /\ [](\A p \in Procs :
          (pc[p] = "done" /\ method[p] \notin GH /\ Len(backends) > 0)
             => Len(tried[p]) = 1)

\* A POST got a 5xx from its first backend and returned it although a
\* backend of higher score was left untried.
C3_Witness ==
  \E p \in Procs :
    /\ pc[p] = "done" /\ method[p] = "POST" /\ is5xx(resp[p].status)
    /\ Len(tried[p]) = 1
    /\ \E i \in Unattempted(p) :
         backends[i].healthScore > backends[tried[p][1]].healthScore

\* C4: a transport call that throws never makes the dispatch throw: it
\* stands for a response of status 502, and the history, lastError and
\* healthScore of the backend and the retry decision come out as for a
\* returned 502.
Effect(p, outcome) ==
  LET k == cur[p]
      r == settle(outcome, k)
  IN [rejected |-> r = uncaught,
      status |-> r.status,
      backend |-> recorded(backends[k], r.status, now),
      retry |-> is5xx(r.status) /\ canRetry(method[p], r.status)]

C4_ThrowActsAs502 ==
  /\ [](\A p \in Procs :
          /\ pc[p] # "rejected"
          /\ (pc[p] = "invoking" /\ Throw \in Outcomes(backends[cur[p]].proxy)) =>
               /\ Effect(p, Throw) = Effect(p, SyntheticStatus)
               /\ Effect(p, Throw).status = SyntheticStatus)
  /\ [][\A p \in Procs :
          (Resumes(p) /\ resp'[p] = proxyError /\ method[p] \notin GH) =>
            /\ pc'[p] = "done"
            /\ Last(log'[cur[p]]) = SyntheticStatus
            /\ backends' = [backends EXCEPT ![cur[p]] =
                              recorded(backends[cur[p]], SyntheticStatus, now)]]_vars

\* A POST whose transport threw came back with the synthetic response.
C4_Witness ==
  \E p \in Procs :
    /\ pc[p] = "done" /\ method[p] = "POST" /\ resp[p] = proxyError
    /\ Len(tried[p]) = 1
    /\ Last(log[tried[p][1]]) = SyntheticStatus

\* C5: a GET or HEAD dispatch over N backends with distinct hosts that all
\* answer 5xx or throw makes exactly N attempts and returns the 502 whose
\* body says that no backend was available.
C5_ExhaustionSaysNoBackend ==
  \A p \in Procs :
    (pc[p] = "done" /\ method[p] \in GH /\ DistinctHosts(backends) /\ AllBad) =>
       /\ Len(tried[p]) = Len(backends)
       /\ resp[p] = noBackend

\* C6: every dispatch over a pool with distinct hosts ends with a response
\* after at most N transport invocations, and each pass of its loop makes
\* the attempted set strictly larger.
C6_TerminatesWithinPool ==
  /\ [](\A p \in Procs : DistinctHosts(backends) =>
          /\ Len(tried[p]) <= Len(backends)
          /\ Cardinality(attempted[p]) = Len(tried[p])
          /\ (pc[p] = "done" => resp[p] # NoResp))
  /\ [][\A p \in Procs :
          (DistinctHosts(backends) /\ pc'[p] = "invoking"
             /\ (pc[p] # "invoking" \/ tried'[p] # tried[p])) =>
            LET before == IF pc[p] = "invoking" THEN attempted[p] ELSE {}
            IN /\ before \subseteq attempted'[p]
               /\ Cardinality(attempted'[p]) = Cardinality(before) + 1]_vars
  /\ \A p \in Procs :
       (pc[p] = "invoking" /\ DistinctHosts(backends)) ~> (pc[p] = "done")

\* A call that went round its loop three times and ended.
C6_Witness ==
  \E p \in Procs :
    /\ pc[p] = "done" /\ DistinctHosts(backends)
    /\ Cardinality(attempted[p]) = 3 /\ resp[p] # NoResp

\* C7: after n >= 10 dispatches, one after the other, to a pool of one
\* backend, the history has exactly 10 entries: the statuses of the last 10
\* attempts, oldest first.
C7_LastTenInOrder ==
  (/\ Len(backends) = 1
   /\ \A p \in Procs : pc[p] # "invoking"
   /\ Len(log[1]) >= HistoryCap) =>
     /\ Len(backends[1].statuses) = HistoryCap
     /\ backends[1].statuses =
          SubSeq(log[1], Len(log[1]) - HistoryCap + 1, Len(log[1]))

\* C8: a history that started with at most 10 entries never holds more than
\* 10, under any sequence or interleaving of dispatches.
C8_HistoryBounded ==
  \A i \in Pool :
    Len(start[i].statuses) <= HistoryCap =>
      Len(backends[i].statuses) <= HistoryCap

\* A history that was filled by a push and then written to while two
\* dispatches were in flight on its backend.
C8_Witness ==
  \E i \in Pool :
    /\ Len(start[i].statuses) < HistoryCap
    /\ Len(backends[i].statuses) = HistoryCap
    /\ Len(log[i]) >= 2
    /\ \A p \in Procs : pc[p] = "invoking" /\ cur[p] = i

\* C9: no candidate the selector returns has a host of the exclusion set.
C9_NeverExcluded ==
  pc[1] = "selected" =>
    \A j \in 1..2 :
      cand[1][j] # 0 => backends[cand[1][j]].host \notin attempted[1]

\* Two candidates were returned although the best backend, met after two
\* others, was excluded.
C9_Witness ==
  /\ pc[1] = "selected"
  /\ cand[1][1] # 0 /\ cand[1][2] # 0
  /\ \E i \in Pool :
       /\ i > 2 /\ i \in attempted[1]
       /\ \A j \in Pool \ {i} : backends[j].healthScore < backends[i].healthScore

\* C10: when at least two backends that are not excluded have the high
\* score and all others a strictly lower one, both candidates of the
\* selector have the high score, in any order and with any request counts.
HighScore == CHOOSE h \in { backends[i].healthScore : i \in Pool } :
               \A i \in Pool : backends[i].healthScore <= h
C10_BothCandidatesHigh ==
  (/\ pc[1] = "selected"
   /\ Cardinality({ i \in Pool \ attempted[1] :
                      backends[i].healthScore = HighScore }) >= 2) =>
     \A j \in 1..2 :
       /\ cand[1][j] # 0
       /\ backends[cand[1][j]].healthScore = HighScore

(* C11: from a pool of exactly one poor-scoring backend and one
   healthy backend with a strictly higher healthScore, in either order and
   with nothing excluded, the selector returns neither candidate equal to the
   poor one. *)
Poorer(i, j) == backends[i].healthScore < backends[j].healthScore
C11_Case ==
  /\ pc[1] = "selected"
  /\ Len(backends) = 2
  /\ attempted[1] = {}
  /\ backends[1].healthScore # backends[2].healthScore
C11_PoorNeverChosen ==
  C11_Case =>
    \A i, j \in Pool : Poorer(i, j) => cand[1][1] # i /\ cand[1][2] # i

(* C12: the selector returns min(2, E) candidates, E being the number of
   backends whose host is not excluded; the candidates are backends that are
   not excluded; two returned candidates are different records; the first is
   absent only when E = 0 and the second only when E <= 1. *)
Given(c) == { j \in 1..2 : c[j] # 0 }
C12_MinTwoOfEligible ==
  pc[1] = "selected" =>
    LET E == Cardinality(Unattempted(1))
        c == cand[1]
    IN /\ Cardinality(Given(c)) = IF E < 2 THEN E ELSE 2
       /\ \A j \in Given(c) : c[j] \in Unattempted(1)
       /\ (c[1] # 0 /\ c[2] # 0) => c[1] # c[2]
       /\ c[1] = 0 <=> E = 0
       /\ c[2] = 0 <=> E <= 1
C12_Witness ==
  /\ pc[1] = "selected"
  /\ Len(backends) >= 3
  /\ Cardinality(Unattempted(1)) = 1
  /\ cand[1][1] # 0
  /\ cand[1][2] = 0

(* C13: for a backend with lastError = 0 the scorer uses a time weight of 0,
   so for every non-empty history, whatever number of 5xx entries it holds,
   and every errorBasis, those below 10000 included, the score is exactly 1. *)
C13_NeverErroredScoresOne ==
  (/\ pc[1] = "scored"
   /\ backends[1].lastError = 0
   /\ Len(backends[1].statuses) >= 1) => result = ScoreScale

(* C14 (as stated): for a backend with lastError > 0 and a history of n >= 1
   entries of which k lie in [500, 599), the score is 1 - w * k / n, where w
   is 1, 0.8, 0.3, 0.1 or 0 as errorBasis - lastError is below 1000, below
   3000, below 5000, below 10000, or not below 10000. *)
Bucket(elapsed) ==
  IF elapsed < 1000 THEN 10
  ELSE IF elapsed < 3000 THEN 8
  ELSE IF elapsed < 5000 THEN 3
  ELSE IF elapsed < 10000 THEN 1
  ELSE 0
Entries(sts, lo, hi) ==
  Cardinality({ i \in 1..Len(sts) : sts[i] >= lo /\ sts[i] < hi })
WeightedFraction(lo, hi) ==
  LET b == backends[1]
      n == Len(b.statuses)
      k == Entries(b.statuses, lo, hi)
      w == Bucket(now - b.lastError)
  IN (pc[1] = "scored" /\ b.lastError > 0 /\ n >= 1) =>
       result * 10 * n = ScoreScale * 10 * n - w * k * ScoreScale
C14_WeightedFractionBelow599 == WeightedFraction(ErrLow, ErrHigh - 1)

(* C14 (amended): the same with k the number of entries in [500, 600), that
   is from 500 to 599 with 599 included. *)
C14_WeightedFraction == WeightedFraction(ErrLow, ErrHigh)
C14_Witness ==
  /\ pc[1] = "scored"
  /\ backends[1].lastError > 0
  /\ now - backends[1].lastError = 2999
  /\ backends[1].statuses = <<200, ErrLow, 200>>
  /\ result * 30 = ScoreScale * 22

(* C15: in every reachable state, whatever the interleaving of dispatches,
   the outcomes of the transport and the clock, the healthScore stored on
   every backend lies between 0 and 1, both included. *)
C15_ScoreInUnitInterval ==
  \A i \in Pool :
    backends[i].healthScore >= 0 /\ backends[i].healthScore <= ScoreScale
C15_Witness ==
  \E i \in Pool :
    /\ Len(log[i]) >= 2
    /\ now > Epoch
    /\ backends[i].healthScore > 0
    /\ backends[i].healthScore < ScoreScale

(* C16: for a backend the balancer built from a host string, after each
   completed attempt the stored healthScore is 1 - timeWeight * k / n, with n
   the number of statuses actually recorded in the history and k the number
   of those that are 5xx; after a fresh backend's first attempt returns 5xx
   its healthScore is 0.  The clock stands still in SpecHistory, so the time
   weight of the last recording is the time weight now. *)
Written(sts) == { j \in 1..Len(sts) : sts[j] # Hole }
C16_ScoreOverRecorded ==
  \A i \in Pool :
    (start[i] = fromHost(start[i].host, start[i].proxy) /\ Len(log[i]) >= 1) =>
      LET b == backends[i]
          n == Cardinality(Written(b.statuses))
          k == Cardinality({ j \in Written(b.statuses) : is5xx(b.statuses[j]) })
          w == timeWeight(b.lastError, now)
      IN b.healthScore * 10 * n = ScoreScale * 10 * n - w * k * ScoreScale

(* C17: when several dispatches are in flight against one backend whose
   history holds HistoryCap entries, each completed attempt writes its status
   at position (requestCount as that attempt's own increment left it) mod
   HistoryCap, whatever other dispatches add to requestCount meanwhile. *)
C17_Step(p) ==
  LET k == cur[p]
      sts == backends[k].statuses
  IN (Resumes(p) /\ Len(sts) = HistoryCap) =>
       backends'[k].statuses =
         [sts EXCEPT ![(ord[p] % HistoryCap) + 1] = Last(log'[k])]
C17_WritesOwnSlot == [][\A p \in Procs : C17_Step(p)]_vars

(* C18 (as stated): an attempt sets lastError to the current time if and only
   if its status is in [500, 599), a thrown transport counting as 502, and
   leaves it unchanged otherwise; so lastError is 0 exactly for the backends
   that started at 0 and have recorded no such status. *)
Within(status, lo, hi) == status >= lo /\ status < hi
LastErrorStep(lo, hi) ==
  /\ \A p \in Procs : Resumes(p) =>
       LET k == cur[p] IN
         IF Within(Last(log'[k]), lo, hi)
         THEN backends'[k].lastError = now
         ELSE backends'[k].lastError = backends[k].lastError
  /\ \A i \in Pool : backends'[i].lastError # backends[i].lastError =>
       \E p \in Procs : Resumes(p) /\ cur[p] = i
LastErrorZero(lo, hi) ==
  \A i \in Pool :
    backends[i].lastError = 0 <=>
      /\ start[i].lastError = 0
      /\ \A j \in 1..Len(log[i]) : ~Within(log[i][j], lo, hi)
C18_StampedBelow599 ==
  /\ [][LastErrorStep(ErrLow, ErrHigh - 1)]_vars
  /\ []LastErrorZero(ErrLow, ErrHigh - 1)

(* C18 (amended): the same with the range [500, 600), that is from 500 to 599
   with 599 included. *)
C18_StampedOn5xx ==
  /\ [][LastErrorStep(ErrLow, ErrHigh)]_vars
  /\ []LastErrorZero(ErrLow, ErrHigh)
C18_Witness ==
  \E i \in Pool :
    /\ start[i].lastError = 0
    /\ log[i] = <<ErrHigh - 1, 200>>
    /\ now > Epoch
    /\ backends[i].lastError = now

(* C19: a step of a dispatch changes requestCount, history, lastError and
   healthScore of no backend but those the call has attempted, and the pool
   keeps its backends, their hosts and their transports; the step that runs
   the selector and starts an attempt changes nothing but the requestCount of
   the backend picked. *)
StepOf(p) == pc'[p] # pc[p] \/ tried'[p] # tried[p]
Attempts(p) == { tried'[p][j] : j \in 1..Len(tried'[p]) }
C19_Step ==
  /\ Len(backends') = Len(backends)
  /\ \A i \in Pool :
       /\ backends'[i].host = backends[i].host
       /\ backends'[i].proxy = backends[i].proxy
       /\ backends'[i] # backends[i] =>
            \E p \in Procs : StepOf(p) /\ i \in Attempts(p)
  /\ \A p \in Procs :
       (pc[p] # "invoking" /\ pc'[p] = "invoking") =>
         backends' = [backends EXCEPT ![cur'[p]].requestCount = @ + 1]
C19_OthersUntouched == [][C19_Step]_vars
C19_Witness ==
  \E p \in Procs, i \in Pool :
    /\ pc[p] = "done"
    /\ tried[p] = <<i>>
    /\ backends[i] # start[i]
    /\ \E j \in Pool : j # i /\ backends[j] = start[j] /\ j \in {cand[p][1], cand[p][2]}

(* C20: requestCount never decreases; it is what the backend started with,
   plus the statuses recorded on it, plus the transport invocations pending
   on it; an attempt adds one to it, once, before the transport is invoked. *)
Pending(i) == Cardinality({ p \in Procs : pc[p] = "invoking" /\ cur[p] = i })
C20_CountsAttempts ==
  /\ [](\A i \in Pool :
          backends[i].requestCount =
            start[i].requestCount + Len(log[i]) + Pending(i))
  /\ [][\A i \in Pool :
          /\ backends'[i].requestCount >= backends[i].requestCount
          /\ \A p \in Procs :
               (StepOf(p) /\ pc'[p] = "invoking" /\ cur'[p] = i) =>
                 backends'[i].requestCount = backends[i].requestCount + 1]_vars
C20_Witness ==
  \E i \in Pool :
    /\ Pending(i) = 2
    /\ Len(log[i]) >= 1
    /\ backends[i].requestCount = start[i].requestCount + Len(log[i]) + 2

TypeOK ==
  /\ \A p \in Procs : pc[p] \in {"idle", "invoking", "done", "rejected", "selected"}
  /\ \A i \in 1..Len(backends) : backends[i].requestCount >= 0
====
